---- MODULE Spec2Model ----
(***************************************************************************)
(* A model of the attestation verifier of go-tpm-tools (package server):   *)
(* VerifyAttestation and its helpers checkAkTrusted, pubKeysEqual,         *)
(* validateAkCert, checkHashAlgSupported and supportedQuotes.              *)
(*                                                                         *)
(* One call of VerifyAttestation is a run of the state machine below, one  *)
(* action per statement group of the function.  The inputs of the call     *)
(* (the attestation and the options) are chosen in Init.                   *)
(***************************************************************************)
EXTENDS Integers, Sequences, FiniteSets, TLC

(***************************************************************************)
(* Bounds of the model.                                                    *)
(***************************************************************************)
MaxQuotes == 2
MaxTrusted == 2
MaxEvents == 1

SeqsUpTo(S, n) == UNION {[1..k -> S] : k \in 0..n}

Last(s) == s[Len(s)]

(***************************************************************************)
(* Hash algorithms.  SM3 stands for an algorithm identifier that is not in *)
(* supportedHashAlgs.                                                      *)
(***************************************************************************)
supportedHashAlgs_weakestFirst == <<"SHA1", "SHA256", "SHA384", "SHA512">>

\* The hash algorithms we support, in their preferred order of use.
supportedHashAlgs == <<"SHA512", "SHA384", "SHA256", "SHA1">>

HashAlgs == {"SHA512", "SHA384", "SHA256", "SHA1", "SM3"}

(***************************************************************************)
(* Public keys.  A key is its type and an identity; two keys of one type   *)
(* are equal when their identities are.                                    *)
(***************************************************************************)
K1 == [type |-> "RSA", id |-> "a"]
K2 == [type |-> "ECC", id |-> "b"]
K3 == [type |-> "Ed25519", id |-> "c"]

\* tpm2.Public.Key() yields RSA or ECC keys only
AKKeys == {K1, K2}
\* opts.TrustedAKs holds crypto.PublicKey values of any type
AnyKeys == {K1, K2, K3}

\* rsa.PublicKey.Equal / ecdsa.PublicKey.Equal: same type and same key
TypedEqual(k1, k2) == k2.type = k1.type /\ k2.id = k1.id

\* an equality that compares the two values whatever their type
pubKeysEqual_generic(k1, k2) == k1 = k2

pubKeysEqual(k1, k2) ==
    CASE k1.type = "RSA" -> TypedEqual(k1, k2)
      [] k1.type = "ECC" -> TypedEqual(k1, k2)
      [] OTHER -> FALSE

(***************************************************************************)
(* Errors are the message of the failing stage and its cause.              *)
(***************************************************************************)
NoErr == [msg |-> "nil", cause |-> "nil"]
Err(m, c) == [msg |-> m, cause |-> c]
Wrap(m, e) == [msg |-> m, cause |-> e.msg]

ErrSHA1NotAllowed == "SHA-1 is not allowed for verification"

\* Checks if the provided AK public key can be trusted
RECURSIVE AnyTrusted(_, _)
AnyTrusted(ak, trusted) ==
    IF trusted = <<>> THEN FALSE
    ELSE IF pubKeysEqual(ak, Head(trusted)) THEN TRUE
    ELSE AnyTrusted(ak, Tail(trusted))

checkAkTrusted_never(ak, opts) == Err("AK public key is not trusted", "nil")

checkAkTrusted(ak, opts) ==
    IF Len(opts.TrustedAKs) = 0
    THEN Err("no mechanism for AK verification provided", "nil")
    ELSE IF AnyTrusted(ak, opts.TrustedAKs) THEN NoErr
    ELSE Err("AK public key is not trusted", "nil")

(***************************************************************************)
(* Certificates.  An AK certificate blob is empty, unparsable, or an X.509 *)
(* certificate for a subject key issued by a CA.  interCA is issued by     *)
(* rootCA.  Chain verification finds a path from the issuer to a root of   *)
(* the pool, through the intermediates of the pool.                        *)
(***************************************************************************)
NoCert == [form |-> "empty", key |-> K1, issuer |-> "none"]
BadCert == [form |-> "garbage", key |-> K1, issuer |-> "none"]
X509Certs == [form : {"x509"}, key : AKKeys, issuer : {"rootCA", "interCA"}]
Certs == {NoCert, BadCert} \cup X509Certs
RootPools == SUBSET {"rootCA"}
InterPools == SUBSET {"interCA"}

ChainVerifies(cert, intermediates, roots) ==
    \/ cert.issuer \in roots
    \/ cert.issuer \in intermediates /\ cert.issuer = "interCA" /\ "rootCA" \in roots

validateAkCert(akCertBytes, intermediates, roots) ==
    IF akCertBytes.form = "empty" THEN Err("AKCert is empty", "nil")
    ELSE IF akCertBytes.form = "garbage" THEN Err("failed to parse AKCert", "nil")
    ELSE IF ~ChainVerifies(akCertBytes, intermediates, roots)
    THEN Err("failed to verify AKCert against trusted roots", "nil")
    ELSE NoErr

checkHashAlgSupported_sha1ok(hash, opts) ==
    IF \E i \in 1..Len(supportedHashAlgs) : supportedHashAlgs[i] = hash THEN NoErr
    ELSE Err("unsupported hash algorithm", "nil")

checkHashAlgSupported(hash, opts) ==
    IF hash = "SHA1" /\ ~opts.AllowSHA1 THEN Err(ErrSHA1NotAllowed, "nil")
    ELSE IF \E i \in 1..Len(supportedHashAlgs) : supportedHashAlgs[i] = hash THEN NoErr
    ELSE Err("unsupported hash algorithm", "nil")

(***************************************************************************)
(* Quotes.  A quote carries its PCR bank (hash algorithm and the values of *)
(* the quoted PCR indices), and what its signed blob commits to: the key   *)
(* that signed it and the nonce embedded in it.                            *)
(***************************************************************************)
\* the first quote of the list whose PCR bank has algorithm alg, if any
RECURSIVE FirstWithAlg(_, _)
FirstWithAlg(quotes, alg) ==
    IF quotes = <<>> THEN <<>>
    ELSE IF Head(quotes).pcrs.hash = alg THEN <<Head(quotes)>>
    ELSE FirstWithAlg(Tail(quotes), alg)

RECURSIVE QuotesByAlg(_, _)
QuotesByAlg(algs, quotes) ==
    IF algs = <<>> THEN <<>>
    ELSE FirstWithAlg(quotes, Head(algs)) \o QuotesByAlg(Tail(algs), quotes)

supportedQuotes_unfiltered(quotes) == quotes

\* Retrieve the supported quotes in order of hash preference
supportedQuotes(quotes) == QuotesByAlg(supportedHashAlgs, quotes)

(***************************************************************************)
(* Event logs and PCR replay.  A log is well formed or not; a well-formed  *)
(* log is its records in file order.  A record extends one PCR with a      *)
(* digest and states one fact (a singular field of the machine state and   *)
(* its value).  Digests are numbers modulo 5 and extending is injective in *)
(* the old value and in the digest, as a collision-free hash is.           *)
(***************************************************************************)
PCRIdx == {0}
Digests == 0..4
FieldNames == {"platform", "cos"}
Events == [pcr : PCRIdx, digest : {1, 2}, field : FieldNames, value : {1, 2}]
MalformedLog == [wellFormed |-> FALSE, events |-> <<>>]
LogOf(evs) == [wellFormed |-> TRUE, events |-> evs]
Logs == {MalformedLog} \cup {LogOf(evs) : evs \in SeqsUpTo(Events, MaxEvents)}

PCRBanks(algs, vals) ==
    {[hash |-> a, pcrs |-> m] : a \in algs,
                                m \in UNION {[S -> vals] : S \in SUBSET PCRIdx}}

Extend(v, d) == (2 * v + d) % 5

\* the value of PCR i after the records of the log for i, from the zero digest
RECURSIVE ReplayFrom(_, _, _)
ReplayFrom(v, events, i) ==
    IF events = <<>> THEN v
    ELSE ReplayFrom(IF Head(events).pcr = i THEN Extend(v, Head(events).digest) ELSE v,
                    Tail(events), i)

ReplayPCR(events, i) == ReplayFrom(0, events, i)

(***************************************************************************)
(* Machine states: singular scalar fields (0 is the unset, default value)  *)
(* and the repeated field raw_events.                                      *)
(***************************************************************************)
NilState == [nil |-> TRUE]
EmptyState == [fields |-> [f \in FieldNames |-> 0], raw_events |-> <<>>]

RECURSIVE StateFrom(_, _, _)
StateFrom(st, events, quoted) ==
    IF events = <<>> THEN st
    ELSE LET e == Head(events)
             nx == IF e.pcr \in quoted
                   THEN [fields |-> [st.fields EXCEPT ![e.field] = e.value],
                         raw_events |-> Append(st.raw_events, e)]
                   ELSE st
         IN StateFrom(nx, Tail(events), quoted)

\* parse a log and replay it against the PCRs of a quote
ReplayLog(log, pcrs) ==
    IF ~log.wellFormed
    THEN [state |-> NilState, err |-> Err("malformed event log", "nil")]
    ELSE IF \E i \in DOMAIN pcrs.pcrs : ReplayPCR(log.events, i) # pcrs.pcrs[i]
    THEN [state |-> NilState, err |-> Err("replay mismatch", "nil")]
    ELSE [state |-> StateFrom(EmptyState, log.events, DOMAIN pcrs.pcrs), err |-> NoErr]

parsePCClientEventLog(rawEventLog, pcrs) == ReplayLog(rawEventLog, pcrs)

parseCanonicalEventLog(rawCanonicalEventLog, pcrs) == ReplayLog(rawCanonicalEventLog, pcrs)

(***************************************************************************)
(* proto.Merge(dst, src): populated scalar fields of src are copied to     *)
(* dst; the elements of a list field of src are appended to dst's.         *)
(***************************************************************************)
ProtoMerge(dst, src) ==
    [fields |-> [f \in FieldNames |->
                    IF src.fields[f] # 0 THEN src.fields[f] ELSE dst.fields[f]],
     raw_events |-> dst.raw_events \o src.raw_events]

\* the merge of line 108: the canonical state is the destination
MergeStates_intoPCClient(celState, state) == ProtoMerge(state, celState)

\* a merge that keeps the PCClient state alone
MergeStates_onlyPCClient(celState, state) == state

MergeStates(celState, state) == ProtoMerge(celState, state)

(***************************************************************************)
(* internal.VerifyQuote(quote, akPubKey, nonce): the signature is by the   *)
(* AK and the signed blob embeds the nonce.                                *)
(***************************************************************************)
VerifyQuote(quote, akPubKey, nonce) ==
    IF quote.signer # akPubKey
    THEN Err("signature verification failed", "nil")
    ELSE IF quote.nonce # nonce THEN Err("quote extraData did not match expected", "nil")
    ELSE NoErr

\* internal.GetSigningHashAlg(akPubArea)
GetSigningHashAlg(akPubArea) ==
    IF akPubArea.sign = "none"
    THEN [alg |-> "none", err |-> Err("unsupported signing scheme", "nil")]
    ELSE [alg |-> akPubArea.sign, err |-> NoErr]

(***************************************************************************)
(* The state of one call of VerifyAttestation.                             *)
(*   att, opts      the arguments of the call                              *)
(*   pc             the statement the call is at                           *)
(*   akPubKey       the decoded AK public key                              *)
(*   cands          the candidates the range loop has not visited yet      *)
(*   quote          the loop variable                                      *)
(*   state,celState the states of the two logs in this iteration           *)
(*   lastErr        the local lastErr                                      *)
(*   result         the returned (state, error)                            *)
(*   calls          history: the checks made so far, with their outcome    *)
(*   prev           history: arguments and result of the call before       *)
(***************************************************************************)
VARIABLES att, opts, pc, akPubKey, cands, quote, state, celState, lastErr,
          result, calls, prev

(***************************************************************************)
(* The state of one call of a function of package wel.                     *)
(*   wpc            "Call" before the function ran, "Done" after           *)
(*   et, etRet      argument and result of UntrustedParseEventType         *)
(*   tagData,tagRet argument d and result of ParseTaggedEventData          *)
(*   intSize        the width of int in the build (32 or 64 bits)          *)
(***************************************************************************)
VARIABLES wpc, et, etRet, tagData, intSize, tagRet

wel == <<wpc, et, etRet, tagData, intSize, tagRet>>

(***************************************************************************)
(* The state of one call of Hash, HashWithSequencing or EventWithSequencing *)
(* of package client, and of the TPM it talks to.                          *)
(*   fn             the function called                                    *)
(*   args           its arguments, and what the resolver returns           *)
(*   hpc            the statement the call is at                           *)
(*   dataBuffer     the bytes of the buffer not read yet                   *)
(*   algo           the local alg                                          *)
(*   sequenceHandle the local sequenceHandle                               *)
(*   tpm            the sequence objects the device holds                  *)
(*   cmds           history: the tpm2 calls made so far, with their outcome *)
(*   ret            what the call returned                                 *)
(***************************************************************************)
VARIABLES fn, args, hpc, dataBuffer, algo, sequenceHandle, tpm, cmds, ret

client == <<fn, args, hpc, dataBuffer, algo, sequenceHandle, tpm, cmds, ret>>

verifier == <<att, opts, pc, akPubKey, cands, quote, state, celState, lastErr,
              result, calls, prev>>

vars == <<verifier, wel, client>>

\* what a step of VerifyAttestation never writes: its arguments, the call
\* before, and the state of the other packages
inputs == <<att, opts, prev, wel, client>>

\* no call of package wel is under way
NoWelCall ==
    /\ wpc = "Idle"
    /\ et = "none" /\ etRet = "none" /\ tagData = <<>> /\ intSize = 64 /\ tagRet = "none"

\* no call of package client is under way
NoClientCall ==
    /\ fn = "none" /\ args = "none" /\ hpc = "Idle" /\ dataBuffer = <<>>
    /\ algo = "none" /\ sequenceHandle = "none" /\ tpm = {} /\ cmds = <<>>
    /\ ret = "none"

NoQuote == [pcrs |-> [hash |-> "none", pcrs |-> <<>>], signer |-> K1, nonce |-> 0]
NoResult == [state |-> NilState, err |-> NoErr]
NoPrev == [none |-> TRUE]

Call(op, q, e) == [op |-> op, quote |-> q, err |-> e]

\* return st, e
Return(st, e) ==
    /\ result' = [state |-> st, err |-> e]
    /\ pc' = "Done"

\* lastErr = fmt.Errorf(...)
RecordErr_first(last, e) == IF last = NoErr THEN e ELSE last

RecordErr(last, e) == e

\* lines 62-69: decode the AK public area and take its key
DecodeAK ==
    /\ pc = "DecodeAK"
    /\ calls' = Append(calls, Call("DecodePublic", NoQuote,
                   IF att.AkPub.decode = "ok" THEN NoErr ELSE Err(att.AkPub.decode, "nil")))
    /\ IF att.AkPub.decode = "badPublic"
       THEN /\ Return(NilState, Err("failed to decode AK public area", "nil"))
            /\ UNCHANGED akPubKey
       ELSE IF att.AkPub.decode = "badKey"
       THEN /\ Return(NilState, Err("failed to get AK public key", "nil"))
            /\ UNCHANGED akPubKey
       ELSE /\ akPubKey' = att.AkPub.key
            /\ pc' = "CheckTrust"
            /\ UNCHANGED result
    /\ UNCHANGED <<inputs, cands, quote, state, celState, lastErr>>

\* lines 70-74: the AK is in TrustedAKs, or else the AK certificate validates
CheckTrust ==
    /\ pc = "CheckTrust"
    /\ LET e1 == checkAkTrusted(akPubKey, opts)
           e2 == validateAkCert(att.AkCert, opts.IntermediateCerts, opts.TrustedRootCerts)
       IN IF e1 = NoErr
          THEN /\ calls' = Append(calls, Call("checkAkTrusted", NoQuote, e1))
               /\ pc' = "SigningAlg"
               /\ UNCHANGED result
          ELSE /\ calls' = calls \o <<Call("checkAkTrusted", NoQuote, e1),
                                      Call("validateAkCert", NoQuote, e2)>>
               /\ IF e2 # NoErr
                  THEN Return(NilState,
                          Wrap("failed to validate attestation key: AKPub is untrusted", e2))
                  ELSE pc' = "SigningAlg" /\ UNCHANGED result
    /\ UNCHANGED <<inputs, akPubKey, cands, quote, state, celState, lastErr>>

\* lines 76-83: the signing hash algorithm of the AK
CheckSigningAlg ==
    /\ pc = "SigningAlg"
    /\ LET sh == GetSigningHashAlg(att.AkPub)
           e == checkHashAlgSupported(sh.alg, opts)
       IN IF sh.err # NoErr
          THEN /\ calls' = Append(calls, Call("GetSigningHashAlg", NoQuote, sh.err))
               /\ Return(NilState, Wrap("bad AK public area", sh.err))
               /\ UNCHANGED <<cands, lastErr>>
          ELSE /\ calls' = calls \o <<Call("GetSigningHashAlg", NoQuote, sh.err),
                                      Call("checkHashAlgSupported(sign)", NoQuote, e)>>
               /\ IF e # NoErr
                  THEN /\ Return(NilState, Wrap("in AK public area", e))
                       /\ UNCHANGED <<cands, lastErr>>
                  ELSE \* lines 86-87: var lastErr error; range supportedQuotes(...)
                       /\ lastErr' = NoErr
                       /\ cands' = supportedQuotes(att.Quotes)
                       /\ pc' = "Loop"
                       /\ UNCHANGED result
    /\ UNCHANGED <<inputs, akPubKey, quote, state, celState>>

\* line 87 and lines 123-126: the next candidate, or the end of the loop
LoopHead ==
    /\ pc = "Loop"
    /\ IF cands # <<>>
       THEN /\ quote' = Head(cands)
            /\ cands' = Tail(cands)
            /\ pc' = "VerifyQuote"
            /\ UNCHANGED result
       ELSE /\ IF lastErr # NoErr
               THEN Return(NilState, lastErr)
               ELSE Return(NilState, Err("attestation does not contain a supported quote", "nil"))
            /\ UNCHANGED <<quote, cands>>
    /\ UNCHANGED <<inputs, akPubKey, state, celState, lastErr, calls>>

\* lines 89-92 with the check of lines 114-118 made at the start of the loop
VerifyQuoteStep_algFirst ==
    /\ pc = "VerifyQuote"
    /\ LET a == checkHashAlgSupported(quote.pcrs.hash, opts)
           e == VerifyQuote(quote, akPubKey, opts.Nonce)
       IN IF a # NoErr
          THEN /\ calls' = Append(calls, Call("checkHashAlgSupported(pcrs)", quote, a))
               /\ lastErr' = RecordErr(lastErr, Wrap("when verifying PCRs", a))
               /\ pc' = "Loop"
          ELSE /\ calls' = Append(calls, Call("VerifyQuote", quote, e))
               /\ IF e # NoErr
                  THEN /\ lastErr' = RecordErr(lastErr, Wrap("failed to verify quote", e))
                       /\ pc' = "Loop"
                  ELSE /\ pc' = "PCClient"
                       /\ UNCHANGED lastErr
    /\ UNCHANGED <<inputs, akPubKey, cands, quote, state, celState, result>>

\* lines 89-92 with a return in the place of the continue
VerifyQuoteStep_fatal ==
    /\ pc = "VerifyQuote"
    /\ LET e == VerifyQuote(quote, akPubKey, opts.Nonce)
       IN /\ calls' = Append(calls, Call("VerifyQuote", quote, e))
          /\ IF e # NoErr
             THEN /\ Return(NilState, Wrap("failed to verify quote", e))
                  /\ UNCHANGED lastErr
             ELSE /\ pc' = "PCClient"
                  /\ UNCHANGED <<lastErr, result>>
    /\ UNCHANGED <<inputs, akPubKey, cands, quote, state, celState>>

\* lines 89-92
VerifyQuoteStep ==
    /\ pc = "VerifyQuote"
    /\ LET e == VerifyQuote(quote, akPubKey, opts.Nonce)
       IN /\ calls' = Append(calls, Call("VerifyQuote", quote, e))
          /\ IF e # NoErr
             THEN /\ lastErr' = RecordErr(lastErr, Wrap("failed to verify quote", e))
                  /\ pc' = "Loop"
             ELSE /\ pc' = "PCClient"
                  /\ UNCHANGED lastErr
    /\ UNCHANGED <<inputs, akPubKey, cands, quote, state, celState, result>>

\* lines 95-100 with a parser that does not compare the replay with the PCRs
ParsePCClient_skipReplay ==
    /\ pc = "PCClient"
    /\ IF ~att.EventLog.wellFormed
       THEN /\ calls' = Append(calls, Call("parsePCClientEventLog", quote,
                                           Err("malformed event log", "nil")))
            /\ lastErr' = RecordErr(lastErr,
                              Wrap("failed to validate the PCClient event log",
                                   Err("malformed event log", "nil")))
            /\ pc' = "Loop"
            /\ UNCHANGED state
       ELSE /\ calls' = Append(calls, Call("parsePCClientEventLog", quote, NoErr))
            /\ state' = StateFrom(EmptyState, att.EventLog.events, DOMAIN quote.pcrs.pcrs)
            /\ pc' = "Canonical"
            /\ UNCHANGED lastErr
    /\ UNCHANGED <<inputs, akPubKey, cands, quote, celState, result>>

\* lines 95-100
ParsePCClient ==
    /\ pc = "PCClient"
    /\ LET r == parsePCClientEventLog(att.EventLog, quote.pcrs)
       IN /\ calls' = Append(calls, Call("parsePCClientEventLog", quote, r.err))
          /\ IF r.err # NoErr
             THEN /\ lastErr' = RecordErr(lastErr,
                                    Wrap("failed to validate the PCClient event log", r.err))
                  /\ pc' = "Loop"
                  /\ UNCHANGED state
             ELSE /\ state' = r.state
                  /\ pc' = "Canonical"
                  /\ UNCHANGED lastErr
    /\ UNCHANGED <<inputs, akPubKey, cands, quote, celState, result>>

\* lines 102-106 with the PCRs of the first candidate in the place of pcrs
ParseCanonical_firstQuote ==
    /\ pc = "Canonical"
    /\ LET r == parseCanonicalEventLog(att.CanonicalEventLog,
                                       Head(supportedQuotes(att.Quotes)).pcrs)
       IN /\ calls' = Append(calls, Call("parseCanonicalEventLog", quote, r.err))
          /\ IF r.err # NoErr
             THEN /\ lastErr' = RecordErr(lastErr,
                                    Wrap("failed to validate the Canonical event log", r.err))
                  /\ pc' = "Loop"
                  /\ UNCHANGED celState
             ELSE /\ celState' = r.state
                  /\ pc' = "Merge"
                  /\ UNCHANGED lastErr
    /\ UNCHANGED <<inputs, akPubKey, cands, quote, state, result>>

\* lines 102-106
ParseCanonical ==
    /\ pc = "Canonical"
    /\ LET r == parseCanonicalEventLog(att.CanonicalEventLog, quote.pcrs)
       IN /\ calls' = Append(calls, Call("parseCanonicalEventLog", quote, r.err))
          /\ IF r.err # NoErr
             THEN /\ lastErr' = RecordErr(lastErr,
                                    Wrap("failed to validate the Canonical event log", r.err))
                  /\ pc' = "Loop"
                  /\ UNCHANGED celState
             ELSE /\ celState' = r.state
                  /\ pc' = "Merge"
                  /\ UNCHANGED lastErr
    /\ UNCHANGED <<inputs, akPubKey, cands, quote, state, result>>

\* line 108: proto.Merge(celState, state)
Merge ==
    /\ pc = "Merge"
    /\ celState' = MergeStates(celState, state)
    /\ pc' = "PCRAlg"
    /\ UNCHANGED <<inputs, akPubKey, cands, quote, state, lastErr, result, calls>>

\* the check of lines 114-118 with its continue left out
CheckPCRAlg_noContinue ==
    /\ pc = "PCRAlg"
    /\ calls' = Append(calls, Call("checkHashAlgSupported(pcrs)", quote,
                                   checkHashAlgSupported(quote.pcrs.hash, opts)))
    /\ Return(celState, NoErr)
    /\ UNCHANGED <<inputs, akPubKey, cands, quote, state, celState, lastErr>>

\* lines 114-120: the PCR hash algorithm, then return celState, nil
CheckPCRAlg ==
    /\ pc = "PCRAlg"
    /\ LET e == checkHashAlgSupported(quote.pcrs.hash, opts)
       IN /\ calls' = Append(calls, Call("checkHashAlgSupported(pcrs)", quote, e))
          /\ IF e # NoErr
             THEN /\ lastErr' = RecordErr(lastErr, Wrap("when verifying PCRs", e))
                  /\ pc' = "Loop"
                  /\ UNCHANGED result
             ELSE /\ Return(celState, NoErr)
                  /\ UNCHANGED lastErr
    /\ UNCHANGED <<inputs, akPubKey, cands, quote, state, celState>>

Next ==
    \/ DecodeAK
    \/ CheckTrust
    \/ CheckSigningAlg
    \/ LoopHead
    \/ VerifyQuoteStep
    \/ ParsePCClient
    \/ ParseCanonical
    \/ Merge
    \/ CheckPCRAlg

(***************************************************************************)
(* The arguments of a call.  Three families of calls are explored: one     *)
(* varies what decides the trust in the AK, one varies the list of quotes, *)
(* one varies the two event logs.                                          *)
(***************************************************************************)
SignAlgs == {"SHA256", "SHA1", "SM3", "none"}
BadAkPubs == [decode : {"badPublic", "badKey"}, key : {K1}, sign : {"none"}]
OkAkPubs(keys, signs) == [decode : {"ok"}, key : keys, sign : signs]

QuotesOf(banks, signers, nonces) == [pcrs : banks, signer : signers, nonce : nonces]

FullBanks(algs, vals) == {b \in PCRBanks(algs, vals) : DOMAIN b.pcrs = PCRIdx}

Ev(d, f, v) == [pcr |-> 0, digest |-> d, field |-> f, value |-> v]
GoodPCClientLog == LogOf(<<Ev(1, "platform", 1)>>)
GoodCanonicalLog == LogOf(<<Ev(1, "cos", 1)>>)
GoodBank(alg) == [hash |-> alg, pcrs |-> [i \in PCRIdx |-> 1]]
GoodQuote(alg, k) == [pcrs |-> GoodBank(alg), signer |-> k, nonce |-> 1]

Attestation(ap, c, qs, l, cl) ==
    [AkPub |-> ap, AkCert |-> c, Quotes |-> qs, EventLog |-> l, CanonicalEventLog |-> cl]

VerifyOpts(n, tk, sha1, r, i) ==
    [Nonce |-> n, TrustedAKs |-> tk, AllowSHA1 |-> sha1,
     TrustedRootCerts |-> r, IntermediateCerts |-> i]

\* the state at the entry of VerifyAttestation(a, o)
Start(a, o) ==
    /\ att = a
    /\ opts = o
    /\ pc = "DecodeAK"
    /\ akPubKey = K1
    /\ cands = <<>>
    /\ quote = NoQuote
    /\ state = NilState
    /\ celState = NilState
    /\ lastErr = NoErr
    /\ result = NoResult
    /\ calls = <<>>
    /\ NoWelCall
    /\ NoClientCall

TrustCalls ==
    \E ap \in BadAkPubs \cup OkAkPubs(AKKeys, SignAlgs),
       tk \in SeqsUpTo(AnyKeys, MaxTrusted),
       c \in Certs, r \in RootPools, i \in InterPools, sha1 \in BOOLEAN,
       qs \in {<<>>, <<GoodQuote("SHA256", K1)>>, <<GoodQuote("SHA1", K2)>>} :
         Start(Attestation(ap, c, qs, GoodPCClientLog, GoodCanonicalLog),
               VerifyOpts(1, tk, sha1, r, i))

QuoteCalls ==
    \E qs \in SeqsUpTo(QuotesOf(FullBanks(HashAlgs, {1, 2}), AKKeys, {1}), MaxQuotes),
       cl \in {GoodCanonicalLog, LogOf(<<Ev(2, "cos", 1)>>)},
       sha1 \in BOOLEAN :
         Start(Attestation([decode |-> "ok", key |-> K1, sign |-> "SHA256"], NoCert, qs,
                           GoodPCClientLog, cl),
               VerifyOpts(1, <<K1>>, sha1, {}, {}))

LogCalls ==
    \E l \in Logs, cl \in Logs,
       q \in QuotesOf(PCRBanks({"SHA256"}, Digests), {K1}, {1, 2}) :
         Start(Attestation([decode |-> "ok", key |-> K1, sign |-> "SHA256"], NoCert, <<q>>,
                           l, cl),
               VerifyOpts(1, <<K1>>, FALSE, {}, {}))

Init ==
    /\ prev = NoPrev
    /\ \/ TrustCalls
       \/ QuoteCalls
       \/ LogCalls

Spec == Init /\ [][Next]_vars

(***************************************************************************)
(* What the properties below read from a call: the history of its checks   *)
(* and, stated on the arguments alone, what each check is to decide.       *)
(***************************************************************************)
Done == pc = "Done"
Returned == Done /\ result.state # NilState

\* the check op was made for quote q and passed
Passed(op, q) == \E i \in DOMAIN calls : calls[i] = Call(op, q, NoErr)
\* some check made for quote q failed
Failed(q) == \E i \in DOMAIN calls : calls[i].quote = q /\ calls[i].err # NoErr
\* a quote or a log was examined
QuoteOps == {"VerifyQuote", "parsePCClientEventLog", "parseCanonicalEventLog",
             "checkHashAlgSupported(pcrs)"}
Examined(q) == \E i \in DOMAIN calls : calls[i].op \in QuoteOps /\ calls[i].quote = q
\* quote q was passed to VerifyQuote
Attempted(q) == \E i \in DOMAIN calls : calls[i].op = "VerifyQuote" /\ calls[i].quote = q

AK == att.AkPub.key
InTrustedAKs == \E i \in DOMAIN opts.TrustedAKs : opts.TrustedAKs[i] = AK
CertChainValid ==
    /\ att.AkCert.form = "x509"
    /\ \/ att.AkCert.issuer \in opts.TrustedRootCerts
       \/ /\ att.AkCert.issuer = "interCA"
          /\ "interCA" \in opts.IntermediateCerts
          /\ "rootCA" \in opts.TrustedRootCerts
AlgAllowed(alg) == alg \in {"SHA512", "SHA384", "SHA256"} \/ (alg = "SHA1" /\ opts.AllowSHA1)
QuoteSigned(q) == q.signer = AK /\ q.nonce = opts.Nonce
Replays(log, q) ==
    /\ log.wellFormed
    /\ \A i \in DOMAIN q.pcrs.pcrs : ReplayPCR(log.events, i) = q.pcrs.pcrs[i]

\* C1: a state is returned, with a nil error, only if for one quote of the
\* attestation every check of this call passed: the trust in the AK, the
\* signing hash algorithm, VerifyQuote of that quote against the AK and
\* opts.Nonce, the replay of both logs against that quote's PCRs and the hash
\* algorithm of that quote's PCRs; a call that ends otherwise returns nil.
C1_StateOnlyFromOneVerifiedQuote ==
    Returned =>
        /\ result.err = NoErr
        /\ att.AkPub.decode = "ok"
        /\ Passed("checkAkTrusted", NoQuote) \/ Passed("validateAkCert", NoQuote)
        /\ InTrustedAKs \/ CertChainValid
        /\ Passed("checkHashAlgSupported(sign)", NoQuote)
        /\ AlgAllowed(att.AkPub.sign)
        /\ \E k \in DOMAIN att.Quotes :
              LET q == att.Quotes[k]
              IN /\ Passed("VerifyQuote", q) /\ QuoteSigned(q)
                 /\ Passed("parsePCClientEventLog", q) /\ Replays(att.EventLog, q)
                 /\ Passed("parseCanonicalEventLog", q) /\ Replays(att.CanonicalEventLog, q)
                 /\ Passed("checkHashAlgSupported(pcrs)", q) /\ AlgAllowed(q.pcrs.hash)

\* a state was returned for the second candidate, after the first one failed
C1_Witness ==
    /\ Returned
    /\ Len(att.Quotes) = 2
    /\ Failed(att.Quotes[1])
    /\ quote = att.Quotes[2]

\* C2: a state is returned only if the decoded AK is trustworthy: it equals a
\* key of opts.TrustedAKs, or it is the key certified by an AK certificate
\* whose chain validates against the root and intermediate pools.
C2_StateOnlyForTrustworthyAK ==
    Returned => InTrustedAKs \/ (CertChainValid /\ att.AkCert.key = AK)

\* the AK is not trusted, yet the certificate of another key lets the call return a state
C2_Witness ==
    /\ Returned
    /\ ~InTrustedAKs
    /\ att.AkCert.key # AK

(***************************************************************************)
(* Two calls in a row.  The caller calls VerifyAttestation again, with the *)
(* same arguments but for the AK certificate and the certificate pools, or *)
(* but for AllowSHA1; prev keeps the first call.                           *)
(***************************************************************************)
Again(a, o) ==
    /\ Done
    /\ prev = NoPrev
    /\ prev' = [att |-> att, opts |-> opts, result |-> result, calls |-> calls]
    /\ att' = a
    /\ opts' = o
    /\ pc' = "DecodeAK"
    /\ akPubKey' = K1
    /\ cands' = <<>>
    /\ quote' = NoQuote
    /\ state' = NilState
    /\ celState' = NilState
    /\ lastErr' = NoErr
    /\ result' = NoResult
    /\ calls' = <<>>
    /\ UNCHANGED <<wel, client>>

CallAgainWithOtherAkCert ==
    \E c \in Certs, r \in RootPools, i \in InterPools :
        Again([att EXCEPT !.AkCert = c],
              [opts EXCEPT !.TrustedRootCerts = r, !.IntermediateCerts = i])

CallAgainAllowingSHA1 ==
    /\ ~opts.AllowSHA1
    /\ Again(att, [opts EXCEPT !.AllowSHA1 = TRUE])

CertCalls ==
    \E ap \in OkAkPubs(AKKeys, {"SHA256"}),
       tk \in SeqsUpTo(AnyKeys, MaxTrusted),
       c \in Certs, r \in RootPools, i \in InterPools :
         Start(Attestation(ap, c, <<GoodQuote("SHA256", K1)>>,
                           GoodPCClientLog, GoodCanonicalLog),
               VerifyOpts(1, tk, FALSE, r, i))

InitCert == prev = NoPrev /\ CertCalls

NextCert == Next \/ CallAgainWithOtherAkCert

SpecCert == InitCert /\ [][NextCert]_vars

\* C3: when opts.TrustedAKs contains a key equal to the decoded AK, the AK
\* certificate is not validated, and a second call that differs from the first
\* only in the AK certificate and the pools returns what the first returned.
C3_TrustedAKIgnoresCert ==
    (Done /\ InTrustedAKs) =>
        /\ \A i \in DOMAIN calls : calls[i].op # "validateAkCert"
        /\ prev # NoPrev => result = prev.result

\* the second call ended, with a certificate outcome other than the first call's
C3_Witness ==
    /\ Done
    /\ InTrustedAKs
    /\ prev # NoPrev
    /\ result.state # NilState
    /\ validateAkCert(att.AkCert, opts.IntermediateCerts, opts.TrustedRootCerts)
         # validateAkCert(prev.att.AkCert, prev.opts.IntermediateCerts,
                          prev.opts.TrustedRootCerts)

PreLoopCalls == {"DecodePublic", "checkAkTrusted", "validateAkCert",
                 "GetSigningHashAlg", "checkHashAlgSupported(sign)"}
NoCall(ops) == \A i \in DOMAIN calls : calls[i].op \notin ops

\* C4: the steps before the loop are fatal and ordered.  If the AK public
\* area does not decode, or the AK is not in TrustedAKs and the AK certificate
\* does not validate, or the signing hash algorithm of the AK is unknown,
\* unsupported or SHA-1 without AllowSHA1, the call returns an error and a nil
\* state, no quote is passed to VerifyQuote, no event log is parsed, and no
\* step after the failing one is made.
C4_PreLoopStepsFatal ==
    /\ att.AkPub.decode # "ok" =>
          /\ NoCall(QuoteOps \cup (PreLoopCalls \ {"DecodePublic"}))
          /\ Done => result.state = NilState /\ result.err # NoErr
    /\ ~InTrustedAKs /\ ~CertChainValid =>
          /\ NoCall(QuoteOps \cup {"GetSigningHashAlg", "checkHashAlgSupported(sign)"})
          /\ Done => result.state = NilState /\ result.err # NoErr
    /\ ~AlgAllowed(att.AkPub.sign) =>
          /\ NoCall(QuoteOps)
          /\ Done => result.state = NilState /\ result.err # NoErr

\* a call with a quote that would verify ended at the SHA-1 signing algorithm
C4_Witness ==
    /\ Done
    /\ att.AkPub.sign = "SHA1"
    /\ ~opts.AllowSHA1
    /\ att.Quotes # <<>>
    /\ result.err = Err("in AK public area", ErrSHA1NotAllowed)

Rank(alg) ==
    CASE alg = "SHA512" -> 1
      [] alg = "SHA384" -> 2
      [] alg = "SHA256" -> 3
      [] alg = "SHA1" -> 4
      [] OTHER -> 5

\* the k-th quote of the attestation is a candidate: the first of the list
\* with its algorithm, which is one of the four supported ones
IsCand(k) ==
    /\ Rank(att.Quotes[k].pcrs.hash) < 5
    /\ \A j \in 1..(k - 1) : att.Quotes[j].pcrs.hash # att.Quotes[k].pcrs.hash

\* C5: candidates are attempted in the order SHA-512, SHA-384, SHA-256,
\* SHA-1 whatever their order in the attestation: when a quote is passed to
\* VerifyQuote, every candidate of a stronger algorithm was passed to
\* VerifyQuote before and a check of it failed before.
C5_PreferenceOrder ==
    \A j \in DOMAIN calls :
        calls[j].op = "VerifyQuote" =>
            \A k \in DOMAIN att.Quotes :
                (IsCand(k) /\ Rank(att.Quotes[k].pcrs.hash) < Rank(calls[j].quote.pcrs.hash)) =>
                    \E i \in 1..(j - 1), f \in 1..(j - 1) :
                        /\ i <= f
                        /\ calls[i].op = "VerifyQuote"
                        /\ calls[i].quote = att.Quotes[k]
                        /\ calls[f].quote = att.Quotes[k]
                        /\ calls[f].err # NoErr

\* the attestation lists the weaker quote first and both were attempted
C5_Witness ==
    /\ Len(att.Quotes) = 2
    /\ Rank(att.Quotes[2].pcrs.hash) < Rank(att.Quotes[1].pcrs.hash)
    /\ Examined(att.Quotes[1])
    /\ Examined(att.Quotes[2])

\* C6 as stated: filtering happens at enumeration, so that no quote of an
\* algorithm other than the four supported ones, and without AllowSHA1 no
\* SHA-1 quote, is signature-verified or has a log replayed against its PCRs.
C6_FilteredAtEnumeration ==
    \A i \in DOMAIN calls :
        calls[i].op \in QuoteOps => AlgAllowed(calls[i].quote.pcrs.hash)

\* C6, amended: no quote of an algorithm other than SHA-512/384/256/1 is ever
\* examined.  Without AllowSHA1 a SHA-1 quote is still a candidate: it is
\* signature-verified and the logs are replayed against its PCRs; it is
\* rejected only by the check of the PCR hash algorithm after the merge, and
\* no state is returned for it.
C6_UnsupportedNeverExamined ==
    /\ \A i \in DOMAIN calls :
          calls[i].op \in QuoteOps => Rank(calls[i].quote.pcrs.hash) < 5
    /\ \A k \in DOMAIN att.Quotes :
          (~opts.AllowSHA1 /\ att.Quotes[k].pcrs.hash = "SHA1") =>
              /\ ~Passed("checkHashAlgSupported(pcrs)", att.Quotes[k])
              /\ Passed("parseCanonicalEventLog", att.Quotes[k]) /\ pc \in {"Loop", "Done"} =>
                    /\ Failed(att.Quotes[k])
                    /\ Done => result = [state |-> NilState,
                                         err |-> Err("when verifying PCRs", ErrSHA1NotAllowed)]

\* without AllowSHA1, both logs were replayed against a SHA-1 quote, next to an
\* unsupported quote in the attestation
C6_Witness ==
    /\ Done
    /\ ~opts.AllowSHA1
    /\ \E k \in DOMAIN att.Quotes : att.Quotes[k].pcrs.hash = "SM3"
    /\ \E k \in DOMAIN att.Quotes :
          /\ att.Quotes[k].pcrs.hash = "SHA1"
          /\ Passed("parseCanonicalEventLog", att.Quotes[k])

PreLoopPassed ==
    /\ att.AkPub.decode = "ok"
    /\ InTrustedAKs \/ CertChainValid
    /\ AlgAllowed(att.AkPub.sign)

\* the four steps of an iteration pass for quote q
AllFourPass(q) ==
    /\ QuoteSigned(q)
    /\ Replays(att.EventLog, q)
    /\ Replays(att.CanonicalEventLog, q)
    /\ AlgAllowed(q.pcrs.hash)

\* C7: the loop over the candidates is a fallback loop.  A candidate that
\* fails in one of its four steps does not end the call: a call that reached
\* the loop and returned an error attempted every candidate; a call returns the
\* state of the first candidate, in preference order, whose four steps pass;
\* and the SHA-1 error of the PCR algorithm check is returned only when every
\* stronger candidate (the SHA-256 one) was attempted and failed.
C7_FallbackLoop ==
    (Done /\ PreLoopPassed) =>
        /\ result.state = NilState =>
              \A k \in DOMAIN att.Quotes : IsCand(k) => Attempted(att.Quotes[k])
        /\ \A k \in DOMAIN att.Quotes :
              (/\ IsCand(k)
               /\ AllFourPass(att.Quotes[k])
               /\ \A j \in DOMAIN att.Quotes :
                     (IsCand(j) /\ Rank(att.Quotes[j].pcrs.hash) < Rank(att.Quotes[k].pcrs.hash))
                        => ~AllFourPass(att.Quotes[j]))
              => /\ result.err = NoErr
                 /\ quote = att.Quotes[k]
                 /\ result.state =
                       MergeStates(
                          parseCanonicalEventLog(att.CanonicalEventLog, att.Quotes[k].pcrs).state,
                          parsePCClientEventLog(att.EventLog, att.Quotes[k].pcrs).state)
        /\ result.err = Err("when verifying PCRs", ErrSHA1NotAllowed) =>
              \A k \in DOMAIN att.Quotes :
                  (IsCand(k) /\ Rank(att.Quotes[k].pcrs.hash) < 4) =>
                      Attempted(att.Quotes[k]) /\ Failed(att.Quotes[k])
        /\ \A k \in DOMAIN att.Quotes :
              (Attempted(att.Quotes[k]) /\ quote # att.Quotes[k]) => Failed(att.Quotes[k])

\* the SHA-256 candidate failed, then the state of the SHA-1 candidate was returned
C7_Witness ==
    /\ Returned
    /\ Len(att.Quotes) = 2
    /\ att.Quotes[1].pcrs.hash = "SHA1"
    /\ att.Quotes[2].pcrs.hash = "SHA256"
    /\ Failed(att.Quotes[2])
    /\ quote = att.Quotes[1]

\* the message line 90, 98, 104 or 116 wraps the error of a check in
StageMsg(op) ==
    CASE op = "VerifyQuote" -> "failed to verify quote"
      [] op = "parsePCClientEventLog" -> "failed to validate the PCClient event log"
      [] op = "parseCanonicalEventLog" -> "failed to validate the Canonical event log"
      [] op = "checkHashAlgSupported(pcrs)" -> "when verifying PCRs"
      [] OTHER -> "none"

\* the last candidate: the one of the weakest algorithm among the candidates
IsLastCand(k) ==
    /\ IsCand(k)
    /\ \A j \in DOMAIN att.Quotes :
          IsCand(j) => Rank(att.Quotes[j].pcrs.hash) <= Rank(att.Quotes[k].pcrs.hash)

\* C8: when the call reached the loop and no candidate succeeded, the state
\* is nil and the error is the one recorded for the last candidate attempted,
\* the candidate of the weakest algorithm; with no candidate at all it is the
\* error that the attestation does not contain a supported quote.
C8_LastErrorReported ==
    (Done /\ PreLoopPassed /\ result.err # NoErr) =>
        /\ result.state = NilState
        /\ IF \A k \in DOMAIN att.Quotes : ~IsCand(k)
           THEN result.err = Err("attestation does not contain a supported quote", "nil")
           ELSE \E k \in DOMAIN att.Quotes :
                   /\ IsLastCand(k)
                   /\ Last(calls).quote = att.Quotes[k]
                   /\ Last(calls).err # NoErr
                   /\ result.err = Wrap(StageMsg(Last(calls).op), Last(calls).err)

\* two candidates failed, with different errors
C8_Witness ==
    /\ Done
    /\ result.err # NoErr
    /\ Len(att.Quotes) = 2
    /\ IsCand(1) /\ IsCand(2)
    /\ \E i \in DOMAIN calls :
          /\ calls[i].quote # NoQuote
          /\ calls[i].err # NoErr
          /\ Wrap(StageMsg(calls[i].op), calls[i].err) # result.err

\* there was no candidate at all
C8_WitnessNone ==
    /\ Done
    /\ PreLoopPassed
    /\ att.Quotes # <<>>
    /\ result.err = Err("attestation does not contain a supported quote", "nil")

SHA1Calls ==
    \E sign \in {"SHA256", "SHA1"},
       qs \in SeqsUpTo(QuotesOf(FullBanks(HashAlgs, {1, 2}), AKKeys, {1}), MaxQuotes),
       cl \in {GoodCanonicalLog, LogOf(<<Ev(2, "cos", 1)>>)} :
         Start(Attestation([decode |-> "ok", key |-> K1, sign |-> sign], NoCert, qs,
                           GoodPCClientLog, cl),
               VerifyOpts(1, <<K1>>, FALSE, {}, {}))

InitSHA1 == prev = NoPrev /\ SHA1Calls

NextSHA1 == Next \/ CallAgainAllowingSHA1

SpecSHA1 == InitSHA1 /\ [][NextSHA1]_vars

CanonicalStateOf(q) == parseCanonicalEventLog(att.CanonicalEventLog, q.pcrs).state

\* C10 as stated: for every singular field set in both the PCClient state and
\* the canonical state, the returned state carries the canonical log's value.
C10_CanonicalWinsOverlap ==
    Returned =>
        \A f \in FieldNames :
            (state.fields[f] # 0 /\ CanonicalStateOf(quote).fields[f] # 0) =>
                result.state.fields[f] = CanonicalStateOf(quote).fields[f]

\* C10, amended: for every singular field set in both the PCClient state and
\* the canonical state, the returned state carries the PCClient log's value:
\* proto.Merge(celState, state) copies the populated fields of its source,
\* the PCClient state, over those of its destination, the canonical state.
C10_PCClientWinsOverlap ==
    Returned =>
        \A f \in FieldNames :
            (state.fields[f] # 0 /\ CanonicalStateOf(quote).fields[f] # 0) =>
                result.state.fields[f] = state.fields[f]

\* both logs set one field, to different values, and a state was returned
C10_Witness ==
    /\ Returned
    /\ \E f \in FieldNames :
          /\ state.fields[f] # 0
          /\ CanonicalStateOf(quote).fields[f] # 0
          /\ state.fields[f] # CanonicalStateOf(quote).fields[f]

(***************************************************************************)
(* C11, C12: algebra of the merge of line 108.                             *)
(***************************************************************************)
\* the elements of a list-valued field, with their multiplicities
Count(s, e) == Cardinality({i \in DOMAIN s : s[i] = e})

\* C11: when the PCClient state and the canonical state of the returned quote
\* are identical, the returned (merged) state is that same state, with no
\* singular field changed and no list element duplicated.
C11_MergeIdempotent ==
    (Returned /\ state = CanonicalStateOf(quote)) => result.state = state

\* C12: every singular field set in only one of the two partial states has
\* that value in the returned state, and every list element of either
\* partial state occurs in the returned state at least as often.
C12_MergeDropsNothing ==
    Returned =>
        LET cel == CanonicalStateOf(quote) IN
        /\ \A f \in FieldNames :
              /\ (state.fields[f] # 0 /\ cel.fields[f] = 0) =>
                     result.state.fields[f] = state.fields[f]
              /\ (cel.fields[f] # 0 /\ state.fields[f] = 0) =>
                     result.state.fields[f] = cel.fields[f]
        /\ \A e \in Events :
              /\ Count(result.state.raw_events, e) >= Count(state.raw_events, e)
              /\ Count(result.state.raw_events, e) >= Count(cel.raw_events, e)

\* a state was returned whose two partial states each carry a field and a
\* list element the other does not
C12_Witness ==
    /\ Returned
    /\ LET cel == CanonicalStateOf(quote) IN
       /\ \E f \in FieldNames : state.fields[f] # 0 /\ cel.fields[f] = 0
       /\ \E f \in FieldNames : cel.fields[f] # 0 /\ state.fields[f] = 0
       /\ \E e \in Events : Count(state.raw_events, e) > 0 /\ Count(cel.raw_events, e) = 0
       /\ \E e \in Events : Count(cel.raw_events, e) > 0 /\ Count(state.raw_events, e) = 0

(***************************************************************************)
(* Package wel.  A uint32 is kept as its two 16-bit halves, compared as    *)
(* the unsigned number hi * 2^16 + lo.                                     *)
(***************************************************************************)
U32(hi, lo) == [hi |-> hi, lo |-> lo]

Lt(a, b) == a.hi < b.hi \/ (a.hi = b.hi /\ a.lo < b.lo)
Gt(a, b) == Lt(b, a)

\* EventType(n) for the BIOS events 0x000000nn and the EFI events 0x800000nn
BIOSEvent(n) == U32(0, n)
EFIEvent(n) == U32(32768, n)

\* the keys of the map eventTypeNames: 0x0 .. 0x12, 0x80000000 .. 0x80000009,
\* 0x80000010 (EFIHCRTMEvent) and 0x800000e0 (EFIVariableAuthority)
eventTypeNames ==
    {BIOSEvent(n) : n \in 0..18} \cup {EFIEvent(n) : n \in (0..9) \cup {16, 224}}

ErrEventTypeRange == "event type not between [0x0, 0x12] or [0x80000000, 0x800000FF]"
ErrEventTypeUnknown == "unknown event type"

\* a parser that accepts every value of the two ranges
UntrustedParseEventType_noTable(v) ==
    IF (v.hi = 0 /\ v.lo <= 18) \/ (v.hi = 32768 /\ v.lo <= 255)
    THEN [val |-> v, err |-> NoErr]
    ELSE [val |-> BIOSEvent(0), err |-> Err(ErrEventTypeRange, "nil")]

UntrustedParseEventType(v) ==
    IF \/ (Lt(v, EFIEvent(0)) /\ Gt(v, EFIEvent(255)))
       \/ (Lt(v, BIOSEvent(0)) /\ Gt(v, BIOSEvent(18)))
    THEN [val |-> BIOSEvent(0), err |-> Err(ErrEventTypeRange, "nil")]
    ELSE IF v \notin eventTypeNames
    THEN [val |-> BIOSEvent(0), err |-> Err(ErrEventTypeUnknown, "nil")]
    ELSE [val |-> v, err |-> NoErr]

\* no call of VerifyAttestation is under way
NoVerifierCall ==
    /\ att = Attestation([decode |-> "ok", key |-> K1, sign |-> "SHA256"], NoCert,
                         <<>>, GoodPCClientLog, GoodCanonicalLog)
    /\ opts = VerifyOpts(1, <<>>, FALSE, {}, {})
    /\ pc = "Idle"
    /\ akPubKey = K1
    /\ cands = <<>>
    /\ quote = NoQuote
    /\ state = NilState
    /\ celState = NilState
    /\ lastErr = NoErr
    /\ result = NoResult
    /\ calls = <<>>
    /\ prev = NoPrev

NoEventType == [val |-> BIOSEvent(0), err |-> NoErr]
\* the nil *TaggedEventData
NilTaggedEventData == [nil |-> TRUE]

NoTagged == [out |-> NilTaggedEventData, err |-> NoErr, alloc |-> "none", panic |-> FALSE]

\* the 32-bit values the parser is called with: the low half 0 .. MaxLow and
\* 0xFFFF under the high halves about 0x0000 and 0x8000
MaxLow == 257

EventTypeInputs ==
    {U32(hi, lo) : hi \in {0, 1, 32767, 32768, 32769, 65535},
                   lo \in (0..MaxLow) \cup {65535}}

InitEventType ==
    /\ NoVerifierCall
    /\ NoClientCall
    /\ wpc = "Call"
    /\ et \in EventTypeInputs
    /\ etRet = NoEventType
    /\ tagData = <<>> /\ intSize = 64 /\ tagRet = NoTagged

ParseEventType ==
    /\ wpc = "Call"
    /\ etRet' = UntrustedParseEventType(et)
    /\ wpc' = "Done"
    /\ UNCHANGED <<verifier, client, et, tagData, intSize, tagRet>>

NextEventType == ParseEventType

SpecEventType == InitEventType /\ [][NextEventType]_vars

\* the two documented ranges, on the number itself
InBIOSRange(v) == v.hi = 0 /\ v.lo <= 18
InEFIRange(v) == v.hi = 32768 /\ v.lo <= 255
InRanges(v) == InBIOSRange(v) \/ InEFIRange(v)

\* the known-value table, written out from the constants of lines 13-49
KnownEventTypes ==
    {v \in EventTypeInputs :
        \/ (v.hi = 0 /\ v.lo \in 0..18)
        \/ (v.hi = 32768 /\ v.lo \in {0, 1, 2, 3, 4, 5, 6, 7, 8, 9, 16, 224})}

\* C13: UntrustedParseEventType(et) returns (EventType(et), nil) exactly when
\* et is a key of eventTypeNames, every key lies in [0x0, 0x12] or
\* [0x80000000, 0x800000FF], and a failing call returns EventType(0) with a
\* non-nil error.
C13_AcceptsExactlyTheTable ==
    /\ \A k \in eventTypeNames : InRanges(k)
    /\ wpc = "Done" =>
          /\ (etRet.err = NoErr) <=> (et \in KnownEventTypes)
          /\ (etRet.err = NoErr) => etRet.val = et
          /\ (etRet.err # NoErr) => etRet.val = BIOSEvent(0)

\* a value of the EFI range that is no key of the table was rejected
C13_Witness ==
    /\ wpc = "Done"
    /\ InEFIRange(et) /\ et \notin KnownEventTypes
    /\ etRet.err # NoErr

\* C14: a value outside both ranges gets the out-of-range error, a value of a
\* range that is no key of the table gets the unknown-event-type error.
C14_TwoDistinctErrors ==
    wpc = "Done" =>
        /\ ~InRanges(et) => etRet.err.msg = ErrEventTypeRange
        /\ (InRanges(et) /\ et \notin KnownEventTypes) =>
              etRet.err.msg = ErrEventTypeUnknown

(***************************************************************************)
(* ParseTaggedEventData(d).  A byte is a number 0 .. 255, d a sequence of  *)
(* bytes.                                                                  *)
(***************************************************************************)
\* the four bytes read with the most significant byte first
LittleEndianUint32_bigEndian(b, i) == U32(b[i + 1] + 256 * b[i], b[i + 3] + 256 * b[i + 2])

\* binary.LittleEndian.Uint32 of the four bytes of b from position i
LittleEndianUint32(b, i) == U32(b[i + 2] + 256 * b[i + 3], b[i] + 256 * b[i + 1])

\* int(v) > n for a uint32 v and a length n below 2^16: with a 32-bit int the
\* conversion of a value from 2^31 on is negative
IntGt(v, n, size) ==
    IF size = 32 /\ v.hi >= 32768 THEN FALSE ELSE v.hi > 0 \/ v.lo > n

\* binary.Read(r, order, data) of n bytes from the unread bytes rest:
\* io.ReadFull fails with io.EOF when nothing is left to read and with
\* io.ErrUnexpectedEOF when fewer than n bytes are
BinaryRead(rest, n) ==
    IF n = 0 THEN [bytes |-> <<>>, err |-> NoErr]
    ELSE IF Len(rest) = 0 THEN [bytes |-> <<>>, err |-> Err("EOF", "nil")]
    ELSE IF Len(rest) < n THEN [bytes |-> <<>>, err |-> Err("unexpected EOF", "nil")]
    ELSE [bytes |-> SubSeq(rest, 1, n), err |-> NoErr]

ErrTaggedLen == "tagged event len larger than data length"

Zeroes(n) == [i \in 1..n |-> 0]

\* what the call returns: the pointer out (nil or the struct), the error,
\* the length given to make (alloc), and whether make panicked
ParseTaggedEventData(b, size) ==
    LET hdr == BinaryRead(b, 8) IN
    IF hdr.err # NoErr
    THEN [out |-> NilTaggedEventData, err |-> Wrap("reading header", hdr.err),
          alloc |-> "none", panic |-> FALSE]
    ELSE LET ID == LittleEndianUint32(b, 1)
             DataLen == LittleEndianUint32(b, 5)
         IN IF IntGt(DataLen, Len(b), size)
            THEN [out |-> NilTaggedEventData, err |-> Err(ErrTaggedLen, "nil"),
                  alloc |-> "none", panic |-> FALSE]
            \* make([]byte, header.DataLen) of 2^16 bytes or more: reached
            \* only with a 32-bit int, where the length is out of range
            ELSE IF DataLen.hi > 0
            THEN [out |-> NilTaggedEventData, err |-> NoErr, alloc |-> DataLen, panic |-> TRUE]
            ELSE LET rd == BinaryRead(SubSeq(b, 9, Len(b)), DataLen.lo) IN
                 [out |-> [ID |-> ID,
                           Data |-> IF rd.err = NoErr THEN rd.bytes
                                    ELSE Zeroes(DataLen.lo)],
                  err |-> rd.err, alloc |-> DataLen, panic |-> FALSE]

\* the inputs: a header with an ID and a DataLen about the payload's length,
\* or huge, followed by up to MaxPayload bytes; and the inputs too short for
\* a header
MaxPayload == 3

HeaderIDs == {<<1, 0, 0, 0>>, <<2, 0, 0, 128>>}

HeaderDataLens ==
    {<<n, 0, 0, 0>> : n \in 0..(MaxPayload + 9)}
        \cup {<<0, 1, 0, 0>>, <<0, 0, 1, 0>>, <<0, 0, 0, 128>>, <<255, 255, 255, 255>>}

TaggedInputs ==
    {id \o dl \o p : id \in HeaderIDs, dl \in HeaderDataLens,
                     p \in SeqsUpTo({7, 9}, MaxPayload)}
        \cup {SubSeq(<<1, 0, 0, 0, 0, 0, 0>>, 1, n) : n \in 0..7}

InitTagged ==
    /\ NoVerifierCall
    /\ NoClientCall
    /\ wpc = "Call"
    /\ et = BIOSEvent(0) /\ etRet = NoEventType
    /\ tagData \in TaggedInputs
    /\ intSize \in {32, 64}
    /\ tagRet = NoTagged

ParseTagged ==
    /\ wpc = "Call"
    /\ tagRet' = ParseTaggedEventData(tagData, intSize)
    /\ wpc' = "Done"
    /\ UNCHANGED <<verifier, client, et, etRet, tagData, intSize>>

NextTagged == ParseTagged

SpecTagged == InitTagged /\ [][NextTagged]_vars

\* the header's DataLen exceeds the bytes of tagData after the 8-byte header
HasHeader == Len(tagData) >= 8
DataLenOf == LittleEndianUint32(tagData, 5)
DataLenExceedsRest == HasHeader /\ (DataLenOf.hi > 0 \/ DataLenOf.lo > Len(tagData) - 8)

\* C15: an input whose header DataLen is greater than the number of bytes
\* after the 8-byte header is rejected by the length check, and no buffer of
\* DataLen bytes is allocated for it.
C15_RejectedBeforeAllocation ==
    (wpc = "Done" /\ DataLenExceedsRest) =>
        /\ tagRet.err.msg = ErrTaggedLen
        /\ tagRet.alloc = "none"

(***************************************************************************)
(* Package client: Hash, HashWithSequencing, EventWithSequencing.          *)
(***************************************************************************)
maxDigestBufferSize == 1024

Min(a, b) == IF a < b THEN a ELSE b

\* a read that skips the byte after the ones it returns
BufferNext_skip(buf, n) ==
    [bytes |-> SubSeq(buf, 1, Min(n, Len(buf))),
     rest |-> SubSeq(buf, Min(n, Len(buf)) + 2, Len(buf))]

\* a read that returns the bytes and leaves them in the buffer
BufferNext_noAdvance(buf, n) ==
    [bytes |-> SubSeq(buf, 1, Min(n, Len(buf))),
     rest |-> buf]

\* bytes.Buffer.Next(n): the next n bytes, or all that is left when fewer,
\* and the buffer after the read
BufferNext(buf, n) ==
    [bytes |-> SubSeq(buf, 1, Min(n, Len(buf))),
     rest |-> SubSeq(buf, Min(n, Len(buf)) + 1, Len(buf))]

\* ByteSliceToBuffer(data): a buffer whose unread bytes are data
ByteSliceToBuffer(data) == data

\* *crypto.Hash values a resolver returns: none, one the TPM has an algorithm
\* for, one it has none for
CryptoHashes == {"nil", "SHA256", "MD5"}

ErrHashNotSupported == "hash algorithm not supported"

\* a mapping that takes an unmapped hash for the null algorithm
HashToAlgorithm_lenient(h) ==
    IF h = "SHA256" THEN [alg |-> "AlgSHA256", err |-> NoErr]
    ELSE [alg |-> "AlgNull", err |-> NoErr]

\* tpm2.HashToAlgorithm(*h)
HashToAlgorithm(h) ==
    IF h = "SHA256" THEN [alg |-> "AlgSHA256", err |-> NoErr]
    ELSE [alg |-> "AlgUnknown", err |-> Err(ErrHashNotSupported, "nil")]

\* the hash function a TPM algorithm computes
HashOfAlgorithm(a) == IF a = "AlgSHA256" THEN "SHA256" ELSE "none"

\* the digest of the byte sequence b under hash function h
Digest(h, b) == [hash |-> h, of |-> b]
NilDigest == [hash |-> "nil", of |-> <<>>]

\* the ticket of a TPM hash under a hierarchy
Ticket(hier, dg) == [hierarchy |-> hier, digest |-> dg]
NilTicket == [hierarchy |-> "nil", digest |-> NilDigest]

\* the banks an event sequence hashes into
PCRBankHashes == <<"SHA1", "SHA256">>
HashValues(b) == [i \in DOMAIN PCRBankHashes |-> Digest(PCRBankHashes[i], b)]

\* handles: the zero tpmutil.Handle, and those a TPM gives to sequences
ZeroHandle == "0x00000000"
SequenceHandles == {"0x80000000", "0x80000001"}

ErrNilTPM == "nil TPM handle"
ErrTPM == "tpm error"

\* the outcome (values, error) of a function of the client
NoRet == [digest |-> NilDigest, ticket |-> NilTicket, hashes |-> <<>>,
          err |-> NoErr, panic |-> FALSE]
RetErr(e) == [NoRet EXCEPT !.err = e]
Panic == [NoRet EXCEPT !.panic = TRUE]

\* a call of package tpm2, as the history keeps it
Cmd(c, dev, hnd, a, buf, e) ==
    [cmd |-> c, device |-> dev, handle |-> hnd, alg |-> a, buffer |-> buf, err |-> e]

\* the sequence object the device holds under handle hnd
IsOpen(hnd) == \E o \in tpm : o.handle = hnd
SeqObj(hnd) == CHOOSE o \in tpm : o.handle = hnd

\* return r
ClientReturn(r) ==
    /\ ret' = r
    /\ hpc' = "Done"

(***************************************************************************)
(* Hash(data, resolver, hierarchyHandle, sequenceAuthorization), lines     *)
(* 46-78: the sequencing path is a call of HashWithSequencing, the two     *)
(* other paths run to their return in this step.                           *)
(***************************************************************************)
\* a choice that tries the device before the sequence authorization
HashPath_deviceFirst(a) ==
    IF a.device # "nil" /\ a.hierarchyHandle # "nil" THEN "tpm2.Hash"
    ELSE IF a.sequenceAuthorization # "nil" THEN "HashWithSequencing"
    ELSE "h.New"

\* the path the conditions of lines 50 and 54 choose
HashPath(a) ==
    IF a.sequenceAuthorization # "nil" THEN "HashWithSequencing"
    ELSE IF a.device # "nil" /\ a.hierarchyHandle # "nil" THEN "tpm2.Hash"
    ELSE "h.New"

HashCall ==
    /\ hpc = "Entry"
    /\ fn = "Hash"
    /\ IF HashPath(args) = "HashWithSequencing"
       THEN /\ fn' = "HashWithSequencing"
            /\ UNCHANGED <<hpc, ret, cmds>>
       ELSE IF HashPath(args) = "tpm2.Hash"
       THEN /\ UNCHANGED fn
            /\ LET m == IF args.h # "nil" THEN HashToAlgorithm(args.h)
                        ELSE [alg |-> "AlgNull", err |-> NoErr]
               IN IF m.err # NoErr
                  THEN /\ ClientReturn(RetErr(m.err))
                       /\ UNCHANGED cmds
                  \* tpm2.Hash(device, alg, data, *hierarchyHandle): the
                  \* device hashes at most one buffer of data
                  ELSE \E ok \in BOOLEAN :
                         LET good == /\ ok
                                     /\ m.alg # "AlgNull"
                                     /\ Len(args.data) <= maxDigestBufferSize
                             dg == Digest(HashOfAlgorithm(m.alg), args.data)
                             e == IF good THEN NoErr ELSE Err(ErrTPM, "nil")
                         IN /\ cmds' = Append(cmds, Cmd("Hash", args.device, ZeroHandle,
                                                        m.alg, args.data, e))
                            /\ ClientReturn(IF good
                                            THEN [NoRet EXCEPT !.digest = dg,
                                                    !.ticket = Ticket(args.hierarchyHandle, dg)]
                                            ELSE RetErr(e))
       \* alg := h.New() dereferences h
       ELSE /\ UNCHANGED <<fn, cmds>>
            /\ IF args.h = "nil"
               THEN ClientReturn(Panic)
               ELSE ClientReturn([NoRet EXCEPT !.digest = Digest(args.h, args.data)])
    /\ UNCHANGED <<verifier, wel, args, dataBuffer, algo, sequenceHandle, tpm>>

(***************************************************************************)
(* The steps HashWithSequencing (lines 90-122) and EventWithSequencing     *)
(* (lines 130-163) share, f being the function that runs.                  *)
(***************************************************************************)
\* the buffer, the resolver, the algorithm
SeqResolve(f) ==
    /\ hpc = "Entry"
    /\ fn = f
    /\ dataBuffer' = ByteSliceToBuffer(args.data)
    /\ LET m == IF args.h # "nil" THEN HashToAlgorithm(args.h)
                ELSE [alg |-> "AlgNull", err |-> NoErr]
       IN IF m.err # NoErr
          THEN /\ ClientReturn(RetErr(m.err))
               /\ UNCHANGED algo
          ELSE /\ algo' = m.alg
               /\ hpc' = "Start"
               /\ UNCHANGED ret
    /\ UNCHANGED <<verifier, wel, fn, args, sequenceHandle, tpm, cmds>>

\* whether the function starts a sequence
StartsSequence(f) ==
    IF f = "HashWithSequencing"
    THEN args.device # "nil" /\ args.hierarchyHandle # "nil"
    ELSE args.device # "nil"

\* tpm2.HashSequenceStart(device, sequenceAuthorization, alg): the device
\* makes a hash sequence object, or an event sequence object for AlgNull,
\* and returns its handle
SeqStart(f) ==
    /\ hpc = "Start"
    /\ fn = f
    /\ IF StartsSequence(f)
       THEN \E ok \in BOOLEAN :
              IF ok
              THEN \E hnd \in SequenceHandles :
                     /\ ~IsOpen(hnd)
                     /\ tpm' = tpm \cup {[handle |-> hnd, alg |-> algo, acc |-> <<>>]}
                     /\ sequenceHandle' = hnd
                     /\ cmds' = Append(cmds, Cmd("HashSequenceStart", args.device, hnd,
                                                  algo, <<>>, NoErr))
                     /\ hpc' = "Update"
                     /\ UNCHANGED ret
              ELSE /\ cmds' = Append(cmds, Cmd("HashSequenceStart", args.device,
                                                ZeroHandle, algo, <<>>, Err(ErrTPM, "nil")))
                   /\ ClientReturn(RetErr(Err(ErrTPM, "nil")))
                   /\ UNCHANGED <<tpm, sequenceHandle>>
       ELSE /\ hpc' = "Update"
            /\ UNCHANGED <<tpm, sequenceHandle, cmds, ret>>
    /\ UNCHANGED <<verifier, wel, fn, args, dataBuffer, algo>>

\* what the device answers to a command on the sequence under handle hnd:
\* without a device the tpm2 call fails before any command is sent, and a
\* handle of no sequence object is an error
CmdErr(dev, hnd, ok) ==
    IF dev = "nil" THEN Err(ErrNilTPM, "nil")
    ELSE IF ~IsOpen(hnd) \/ ~ok THEN Err(ErrTPM, "nil")
    ELSE NoErr

\* an update whose error is dropped
SeqUpdate_ignoreErr(f) ==
    /\ hpc = "Update"
    /\ fn = f
    /\ LET nx == BufferNext(dataBuffer, maxDigestBufferSize) IN
       \E ok \in BOOLEAN :
         LET e == CmdErr(args.device, sequenceHandle, ok) IN
         /\ cmds' = Append(cmds, Cmd("SequenceUpdate", args.device, sequenceHandle,
                                      algo, nx.bytes, e))
         /\ dataBuffer' = nx.rest
         /\ tpm' = IF e = NoErr
                   THEN (tpm \ {SeqObj(sequenceHandle)})
                          \cup {[SeqObj(sequenceHandle) EXCEPT !.acc = @ \o nx.bytes]}
                   ELSE tpm
         /\ hpc' = IF Len(nx.rest) > 0 THEN "Update" ELSE "Complete"
         /\ UNCHANGED ret
    /\ UNCHANGED <<verifier, wel, fn, args, algo, sequenceHandle>>

\* an update after which the loop ends whatever the buffer holds
SeqUpdate_noLoop(f) ==
    /\ hpc = "Update"
    /\ fn = f
    /\ LET nx == BufferNext(dataBuffer, maxDigestBufferSize) IN
       \E ok \in BOOLEAN :
         LET e == CmdErr(args.device, sequenceHandle, ok) IN
         /\ cmds' = Append(cmds, Cmd("SequenceUpdate", args.device, sequenceHandle,
                                      algo, nx.bytes, e))
         /\ dataBuffer' = nx.rest
         /\ IF e # NoErr
            THEN /\ ClientReturn(RetErr(e))
                 /\ UNCHANGED tpm
            ELSE /\ tpm' = (tpm \ {SeqObj(sequenceHandle)})
                             \cup {[SeqObj(sequenceHandle) EXCEPT !.acc = @ \o nx.bytes]}
                 /\ hpc' = "Complete"
                 /\ UNCHANGED ret
    /\ UNCHANGED <<verifier, wel, fn, args, algo, sequenceHandle>>

\* a loop that tests the buffer before its body: for dataBuffer.Len() > 0
SeqUpdate_whileLoop(f) ==
    /\ hpc = "Update"
    /\ fn = f
    /\ IF Len(dataBuffer) = 0
       THEN /\ hpc' = "Complete"
            /\ UNCHANGED <<cmds, dataBuffer, tpm, ret>>
       ELSE LET nx == BufferNext(dataBuffer, maxDigestBufferSize) IN
            \E ok \in BOOLEAN :
              LET e == CmdErr(args.device, sequenceHandle, ok) IN
              /\ cmds' = Append(cmds, Cmd("SequenceUpdate", args.device, sequenceHandle,
                                           algo, nx.bytes, e))
              /\ dataBuffer' = nx.rest
              /\ IF e # NoErr
                 THEN /\ ClientReturn(RetErr(e))
                      /\ UNCHANGED tpm
                 ELSE /\ tpm' = (tpm \ {SeqObj(sequenceHandle)})
                                  \cup {[SeqObj(sequenceHandle) EXCEPT !.acc = @ \o nx.bytes]}
                      /\ hpc' = IF Len(nx.rest) > 0 THEN "Update" ELSE "Complete"
                      /\ UNCHANGED ret
    /\ UNCHANGED <<verifier, wel, fn, args, algo, sequenceHandle>>

\* one turn of the loop: tpm2.SequenceUpdate(device, sequenceAuthorization,
\* sequenceHandle, dataBuffer.Next(maxDigestBufferSize)), then the loop
\* condition dataBuffer.Len() > 0
SeqUpdate(f) ==
    /\ hpc = "Update"
    /\ fn = f
    /\ LET nx == BufferNext(dataBuffer, maxDigestBufferSize) IN
       \E ok \in BOOLEAN :
         LET e == CmdErr(args.device, sequenceHandle, ok) IN
         /\ cmds' = Append(cmds, Cmd("SequenceUpdate", args.device, sequenceHandle,
                                      algo, nx.bytes, e))
         /\ dataBuffer' = nx.rest
         /\ IF e # NoErr
            THEN /\ ClientReturn(RetErr(e))
                 /\ UNCHANGED tpm
            ELSE /\ tpm' = (tpm \ {SeqObj(sequenceHandle)})
                             \cup {[SeqObj(sequenceHandle) EXCEPT !.acc = @ \o nx.bytes]}
                 /\ hpc' = IF Len(nx.rest) > 0 THEN "Update" ELSE "Complete"
                 /\ UNCHANGED ret
    /\ UNCHANGED <<verifier, wel, fn, args, algo, sequenceHandle>>

\* tpm2.SequenceComplete(device, sequenceAuthorization, sequenceHandle,
\* *hierarchyHandle, nil) of a hash sequence, or tpm2.EventSequenceComplete(
\* device, pcrAuthorization, sequenceAuthorization, pcrHandle, sequenceHandle,
\* nil) of an event sequence; the device drops a completed sequence object
SeqComplete(f) ==
    /\ hpc = "Complete"
    /\ fn = f
    /\ IF f = "HashWithSequencing" /\ args.hierarchyHandle = "nil"
       THEN /\ ClientReturn(Panic)
            /\ UNCHANGED <<tpm, cmds>>
       ELSE \E ok \in BOOLEAN :
              LET c == IF f = "HashWithSequencing" THEN "SequenceComplete"
                       ELSE "EventSequenceComplete"
                  kind == IF f = "HashWithSequencing" THEN algo # "AlgNull"
                          ELSE algo = "AlgNull"
                  e == CmdErr(args.device, sequenceHandle, ok /\ kind)
                  acc == IF e = NoErr THEN SeqObj(sequenceHandle).acc ELSE <<>>
                  dg == Digest(HashOfAlgorithm(algo), acc)
              IN /\ cmds' = Append(cmds, Cmd(c, args.device, sequenceHandle, algo, <<>>, e))
                 /\ tpm' = IF e = NoErr THEN tpm \ {SeqObj(sequenceHandle)} ELSE tpm
                 /\ ClientReturn(IF e # NoErr THEN RetErr(e)
                                 ELSE IF f = "HashWithSequencing"
                                 THEN [NoRet EXCEPT !.digest = dg,
                                         !.ticket = Ticket(args.hierarchyHandle, dg)]
                                 ELSE [NoRet EXCEPT !.hashes = HashValues(acc)])
    /\ UNCHANGED <<verifier, wel, fn, args, dataBuffer, algo, sequenceHandle>>

HashWithSequencing_resolve == SeqResolve("HashWithSequencing")
HashWithSequencing_start == SeqStart("HashWithSequencing")
HashWithSequencing_update == SeqUpdate("HashWithSequencing")
HashWithSequencing_complete == SeqComplete("HashWithSequencing")

EventWithSequencing_resolve == SeqResolve("EventWithSequencing")
EventWithSequencing_start == SeqStart("EventWithSequencing")
EventWithSequencing_update == SeqUpdate("EventWithSequencing")
EventWithSequencing_complete == SeqComplete("EventWithSequencing")

NextClient ==
    \/ HashCall
    \/ HashWithSequencing_resolve
    \/ HashWithSequencing_start
    \/ HashWithSequencing_update
    \/ HashWithSequencing_complete
    \/ EventWithSequencing_resolve
    \/ EventWithSequencing_start
    \/ EventWithSequencing_update
    \/ EventWithSequencing_complete

\* the data of the calls: every length within one byte of a multiple of the
\* chunk ceiling, up to MaxChunks chunks; the byte at position i is i mod 251
MaxChunks == 2

DataOfLen(n) == [i \in 1..n |-> i % 251]

DataLens ==
    {k * maxDigestBufferSize + e : k \in 0..MaxChunks, e \in {-1, 0, 1}} \cap Nat

Devices == {"nil", "tpm"}
HierarchyHandles == {"nil", "HandleNull"}

\* the state at the entry of function f with the given arguments and resolver
ClientStart(f, a) ==
    /\ fn = f
    /\ args = a
    /\ hpc = "Entry"
    /\ dataBuffer = <<>>
    /\ algo = "AlgNull"
    /\ sequenceHandle = ZeroHandle
    /\ tpm = {}
    /\ cmds = <<>>
    /\ ret = NoRet

ClientArgs(f, n, h, dev, hh, sa) ==
    [call |-> f, data |-> DataOfLen(n), h |-> h, device |-> dev,
     hierarchyHandle |-> hh, sequenceAuthorization |-> sa]

InitClient ==
    /\ NoVerifierCall
    /\ wpc = "Idle" /\ et = BIOSEvent(0) /\ etRet = NoEventType
    /\ tagData = <<>> /\ intSize = 64 /\ tagRet = NoTagged
    /\ \E n \in DataLens, h \in CryptoHashes, dev \in Devices :
         \/ \E hh \in HierarchyHandles, sa \in {"nil", ""} :
              ClientStart("Hash", ClientArgs("Hash", n, h, dev, hh, sa))
         \/ \E hh \in HierarchyHandles :
              ClientStart("HashWithSequencing",
                          ClientArgs("HashWithSequencing", n, h, dev, hh, ""))
         \/ ClientStart("EventWithSequencing",
                        ClientArgs("EventWithSequencing", n, h, dev, "nil", ""))

SpecClient == InitClient /\ [][NextClient]_vars

\* the goroutine that runs the call is scheduled until the call has returned,
\* and every tpm2 call it makes returns
SpecClientFair == InitClient /\ [][NextClient]_vars /\ WF_vars(NextClient)

(***************************************************************************)
(* What the properties below read from a call of the client: the history   *)
(* of its tpm2 calls and, stated on the arguments alone, what is to happen. *)
(***************************************************************************)
ClientDone == hpc = "Done"
Sequencing == fn \in {"HashWithSequencing", "EventWithSequencing"}

\* the commands a device received
Issued(i) == cmds[i].device # "nil"

IsStart(i) == cmds[i].cmd = "HashSequenceStart"
IsUpdate(i) == cmds[i].cmd = "SequenceUpdate"
IsComplete(i) == cmds[i].cmd \in {"SequenceComplete", "EventSequenceComplete"}

\* the buffers of the SequenceUpdate calls among the first n, in order
RECURSIVE Fed(_)
Fed(n) ==
    IF n = 0 THEN <<>>
    ELSE IF IsUpdate(n) THEN Fed(n - 1) \o cmds[n].buffer
    ELSE Fed(n - 1)

\* the resolver's hash has no TPM algorithm
Unmapped == args.h \notin {"nil", "SHA256"}

\* C16: the buffers passed to SequenceUpdate, in the order of the calls and
\* followed by what the buffer still holds, are the input; once the loop has
\* ended they are the input, a digest HashWithSequencing returns is the
\* digest Hash computes locally over the whole input with the same hash, and
\* the hash values EventWithSequencing returns are those of the whole input.
C16_ChunksAreTheInput ==
    /\ (Sequencing /\ hpc \in {"Start", "Update", "Complete"}) =>
          Fed(Len(cmds)) \o dataBuffer = args.data
    /\ (Sequencing /\ (hpc = "Complete" \/ (ClientDone /\ ret.err = NoErr))) =>
          Fed(Len(cmds)) = args.data
    /\ (ClientDone /\ fn = "HashWithSequencing" /\ ret.err = NoErr /\ ~ret.panic) =>
          ret.digest = Digest(args.h, args.data)
    /\ (ClientDone /\ fn = "EventWithSequencing" /\ ret.err = NoErr) =>
          ret.hashes = HashValues(args.data)

\* HashWithSequencing returned a digest of an input of more than one chunk
C16_Witness ==
    /\ ClientDone
    /\ fn = "HashWithSequencing"
    /\ ret.err = NoErr /\ ~ret.panic
    /\ Len(args.data) > maxDigestBufferSize
    /\ Cardinality({i \in DOMAIN cmds : IsUpdate(i)}) >= 2

\* C17: every SequenceUpdate, SequenceComplete and EventSequenceComplete a
\* device receives comes after a HashSequenceStart of the call that
\* succeeded, and carries the handle that start returned.
C17_NoUpdateWithoutStart ==
    \A i \in DOMAIN cmds :
        (Issued(i) /\ (IsUpdate(i) \/ IsComplete(i))) =>
            \E j \in 1..(i - 1) :
                /\ IsStart(j)
                /\ cmds[j].err = NoErr
                /\ cmds[j].handle = cmds[i].handle

\* C18: when the resolver's hash has no TPM algorithm, a call of
\* HashWithSequencing, of EventWithSequencing or of Hash on one of its TPM
\* paths makes no tpm2 call, leaves the device without a sequence object,
\* and returns the mapping's error with nil values.
C18_UnmappedRejectedFirst ==
    (Unmapped /\ (\/ args.call # "Hash"
                  \/ args.sequenceAuthorization # "nil"
                  \/ (args.device # "nil" /\ args.hierarchyHandle # "nil"))) =>
        /\ cmds = <<>>
        /\ tpm = {}
        /\ hpc \in {"Entry", "Done"}
        /\ ClientDone => ret = RetErr(Err(ErrHashNotSupported, "nil"))

\* a call with a device and with an unmapped hash has returned
C18_Witness ==
    /\ ClientDone
    /\ Unmapped
    /\ args.device # "nil" /\ args.hierarchyHandle # "nil"
    /\ args.call \in {"Hash", "HashWithSequencing"}
    /\ ret.err # NoErr

\* C19: a HashSequenceStart or SequenceUpdate that failed is the last tpm2
\* call of the call, which has returned that error with nil values; and no
\* call starts a second sequence.
C19_FailureEndsTheCall ==
    /\ \A i \in DOMAIN cmds :
          ((IsStart(i) \/ IsUpdate(i)) /\ cmds[i].err # NoErr) =>
              /\ i = Len(cmds)
              /\ ClientDone
              /\ ret = RetErr(cmds[i].err)
    /\ Cardinality({i \in DOMAIN cmds : IsStart(i)}) <= 1

\* the second SequenceUpdate of a started sequence failed while the buffer
\* still held data
C19_Witness ==
    /\ ClientDone
    /\ Len(cmds) = 3
    /\ IsStart(1) /\ cmds[1].err = NoErr
    /\ IsUpdate(2) /\ cmds[2].err = NoErr
    /\ IsUpdate(3) /\ cmds[3].err # NoErr
    /\ dataBuffer # <<>>

\* C20: a call of Hash with a sequence authorization runs HashWithSequencing
\* and neither the one-shot tpm2.Hash nor the local hash; without one, and
\* with a device and a hierarchy handle, its only tpm2 call is one tpm2.Hash
\* (none when the hash has no TPM algorithm); otherwise it makes no tpm2
\* call and, for a resolved hash, returns the local digest and a nil ticket.
C20_ExactlyOnePath ==
    (args.call = "Hash" /\ ClientDone) =>
        IF args.sequenceAuthorization # "nil"
        THEN /\ fn = "HashWithSequencing"
             /\ \A i \in DOMAIN cmds : cmds[i].cmd # "Hash"
        ELSE IF args.device # "nil" /\ args.hierarchyHandle # "nil"
        THEN /\ fn = "Hash"
             /\ Len(cmds) = (IF Unmapped THEN 0 ELSE 1)
             /\ \A i \in DOMAIN cmds : cmds[i].cmd = "Hash" /\ cmds[i].buffer = args.data
        ELSE /\ fn = "Hash"
             /\ cmds = <<>>
             /\ args.h # "nil" =>
                   ret = [NoRet EXCEPT !.digest = Digest(args.h, args.data)]

\* Hash was called with a sequence authorization, a device and a hierarchy
\* handle, and the sequence returned a digest
C20_Witness ==
    /\ args.call = "Hash" /\ ClientDone
    /\ args.sequenceAuthorization # "nil"
    /\ args.device # "nil" /\ args.hierarchyHandle # "nil"
    /\ ret.err = NoErr /\ ret.digest # NilDigest

\* C21: a call whose resolver supplies no device sends no command to a device
\* and ends with a value or an error, never with a panic.
C21_NoDeviceNoCrash ==
    args.device = "nil" =>
        /\ \A i \in DOMAIN cmds : ~Issued(i)
        /\ ClientDone => ~ret.panic

(***************************************************************************)
(* C22: PCR replay as VerifyAttestation invokes it.                        *)
(***************************************************************************)
ParseOps == {"parsePCClientEventLog", "parseCanonicalEventLog"}
LogFor(op) == IF op = "parsePCClientEventLog" THEN att.EventLog ELSE att.CanonicalEventLog

\* the log with the digest of its k-th record changed to dg
WithDigest(log, k, dg) == [log EXCEPT !.events[k].digest = dg]

\* the replay of a log and of the quote q was made, and it succeeded
ReplayPassed(i) == calls[i].op \in ParseOps /\ calls[i].err = NoErr

\* every replay made succeeded exactly when the log is well formed and, for
\* every PCR index of the quote, extending the zero digest through the log's
\* records for that index yields the quoted value; and a state is returned
\* only for a quote no replay of which failed
ReplayIffValuesMatch ==
    /\ \A i \in DOMAIN calls :
          calls[i].op \in ParseOps =>
              ((calls[i].err = NoErr) <=> Replays(LogFor(calls[i].op), calls[i].quote))
    /\ Returned =>
          /\ Replays(att.EventLog, quote) /\ Replays(att.CanonicalEventLog, quote)
          /\ \A i \in DOMAIN calls :
                (calls[i].op \in ParseOps /\ calls[i].quote = quote) => calls[i].err = NoErr

IterationOf(i) ==
    CHOOSE j \in 0..i :
        /\ j = 0 \/ calls[j].op = "VerifyQuote"
        /\ \A m \in (j + 1)..i : calls[m].op # "VerifyQuote"

\* C23: every replay and every PCR algorithm check is made for the quote
\* that VerifyQuote accepted in the same iteration, and its outcome is the
\* one that quote's own PCR set and algorithm give; the returned state is the
\* merge of the two states of the two logs replayed against the PCRs of the
\* quote of the last iteration, whatever earlier candidates held.
C23_OneQuotePerAttempt ==
    /\ \A i \in DOMAIN calls :
          calls[i].op \in ParseOps \cup {"checkHashAlgSupported(pcrs)"} =>
              /\ IterationOf(i) > 0
              /\ calls[IterationOf(i)] = Call("VerifyQuote", calls[i].quote, NoErr)
              /\ calls[i].op \in ParseOps =>
                    ((calls[i].err = NoErr) <=> Replays(LogFor(calls[i].op), calls[i].quote))
              /\ calls[i].op = "checkHashAlgSupported(pcrs)" =>
                    ((calls[i].err = NoErr) <=> AlgAllowed(calls[i].quote.pcrs.hash))
    /\ Returned =>
          /\ Last(calls) = Call("checkHashAlgSupported(pcrs)", quote, NoErr)
          /\ result.state = ProtoMerge(ReplayLog(att.CanonicalEventLog, quote.pcrs).state,
                                       ReplayLog(att.EventLog, quote.pcrs).state)

\* a state was returned for the second candidate after the first, with other
\* PCR values, was accepted by VerifyQuote and failed a replay
C23_Witness ==
    /\ Returned
    /\ \E i \in DOMAIN calls :
          /\ calls[i].op \in ParseOps
          /\ calls[i].err # NoErr
          /\ calls[i].quote.pcrs.pcrs # quote.pcrs.pcrs
          /\ calls[i].quote.pcrs.hash # quote.pcrs.hash

\* C24: with a trusted AK and a supported signing algorithm, a call returns a
\* state whenever some quote of the attestation is signed by the AK over the
\* nonce, replays both logs and has an allowed PCR hash algorithm, wherever
\* it stands in the list.
C24_EveryQuoteIsCandidate ==
    (Done /\ PreLoopPassed /\ \E k \in DOMAIN att.Quotes : AllFourPass(att.Quotes[k])) =>
        Returned

\* the call returned its values and no error
ClientSucceeded == ClientDone /\ ret.err = NoErr /\ ~ret.panic

\* the SequenceUpdate calls of the history
Updates == {i \in DOMAIN cmds : IsUpdate(i)}

\* C25: the tpm2 calls of a HashWithSequencing or EventWithSequencing call
\* with a device that succeeded are one HashSequenceStart, then one or more
\* SequenceUpdate, then one SequenceComplete (hash) or EventSequenceComplete
\* (event), all received by the device and answered without error; the
\* completion is made with an empty buffer and no call follows one.
C25_StartUpdatesComplete ==
    /\ (Sequencing /\ ClientSucceeded /\ args.device # "nil") =>
          /\ Len(cmds) >= 3
          /\ IsStart(1)
          /\ \A i \in 2..(Len(cmds) - 1) : IsUpdate(i)
          /\ cmds[Len(cmds)].cmd = (IF fn = "HashWithSequencing" THEN "SequenceComplete"
                                    ELSE "EventSequenceComplete")
          /\ \A i \in DOMAIN cmds : Issued(i) /\ cmds[i].err = NoErr
    /\ \A i \in DOMAIN cmds :
          IsComplete(i) => /\ i = Len(cmds)
                           /\ ClientDone
                           /\ dataBuffer = <<>>

\* EventWithSequencing returned the hash values of an input of two chunks
C25_Witness ==
    /\ ClientSucceeded
    /\ fn = "EventWithSequencing"
    /\ args.device # "nil"
    /\ Len(cmds) = 4
    /\ cmds[4].cmd = "EventSequenceComplete"

\* C26: every SequenceUpdate carries at most maxDigestBufferSize bytes and
\* every one but the last exactly that many; once the loop has ended on an
\* input of n bytes there were max(1, ceil(n / maxDigestBufferSize)) of them,
\* one with an empty buffer when the input is empty.
C26_UpdateCount ==
    /\ \A i \in Updates :
          /\ Len(cmds[i].buffer) <= 1024
          /\ (\E j \in Updates : j > i) => Len(cmds[i].buffer) = 1024
    /\ (Sequencing /\ (hpc = "Complete" \/ \E i \in DOMAIN cmds : IsComplete(i))) =>
          LET n == Len(args.data) IN
          /\ Cardinality(Updates) = (IF n = 0 THEN 1 ELSE (n + 1023) \div 1024)
          /\ n = 0 => \A i \in Updates : cmds[i].buffer = <<>>

\* a call on an empty input has ended its loop after one update
C26_Witness ==
    /\ Sequencing
    /\ args.data = <<>>
    /\ hpc = "Complete"
    /\ Cardinality(Updates) = 1

\* C27: each turn of the loop takes min(1024, remaining) bytes out of the
\* buffer, so that what remains gets shorter while there is any; and every
\* call of HashWithSequencing or EventWithSequencing returns, with its values
\* or with an error.
C27_SequencingTerminates ==
    /\ [][hpc = "Update" =>
            /\ Len(dataBuffer') =
                 Len(dataBuffer) - (IF Len(dataBuffer) < 1024 THEN Len(dataBuffer) ELSE 1024)
            /\ Len(dataBuffer) > 0 => Len(dataBuffer') < Len(dataBuffer)]_vars
    /\ (Sequencing /\ hpc = "Entry") ~> (ClientDone /\ ~ret.panic)

\* a call on an input of more than two chunks has returned after three updates
C27_Witness ==
    /\ Sequencing
    /\ ClientDone
    /\ Len(args.data) > 2 * 1024
    /\ Cardinality(Updates) >= 3
    /\ dataBuffer = <<>>

\* the payload: the bytes of tagData after the 8-byte header
PayloadOf == SubSeq(tagData, 9, Len(tagData))

\* tagData is LE32(id), LE32(n) and a payload of n bytes or more, n < 2^16
WellFormedTagged ==
    /\ HasHeader
    /\ tagData[7] = 0 /\ tagData[8] = 0
    /\ tagData[5] + 256 * tagData[6] <= Len(PayloadOf)

\* C28: parsing LE32(id), LE32(n) and a payload of n bytes or more returns
\* no error, the ID id and as Data the first n bytes of the payload, whatever
\* follows them; an input of fewer than 8 bytes returns a nil result and the
\* header's read error.
C28_RoundTrip ==
    wpc = "Done" =>
        /\ WellFormedTagged =>
              /\ tagRet.err = NoErr
              /\ ~tagRet.panic
              /\ tagRet.out =
                   [ID |-> [hi |-> tagData[3] + 256 * tagData[4],
                            lo |-> tagData[1] + 256 * tagData[2]],
                    Data |-> SubSeq(PayloadOf, 1, tagData[5] + 256 * tagData[6])]
        /\ Len(tagData) < 8 =>
              /\ tagRet.out = NilTaggedEventData
              /\ tagRet.err.msg = "reading header"

\* a structure of two data bytes followed by a third byte was parsed
C28_Witness ==
    /\ wpc = "Done"
    /\ WellFormedTagged
    /\ tagData[5] = 2
    /\ Len(PayloadOf) = 3
    /\ tagData[4] = 128
    /\ tagRet.err = NoErr
    /\ Len(tagRet.out.Data) = 2

\* C29: the *TaggedEventData a call returns is non-nil if and only if the
\* error it returns is nil.
C29_ResultIffNoError ==
    (wpc = "Done" /\ ~tagRet.panic) =>
        (tagRet.out # NilTaggedEventData <=> tagRet.err = NoErr)

(***************************************************************************)
(* checkAkTrusted(ak, opts) called by itself, on a key of any type and     *)
(* every list of trusted keys.                                             *)
(***************************************************************************)
\* a second RSA key
K4 == [type |-> "RSA", id |-> "d"]

TrustKeys == AnyKeys \cup {K4}

InitAkTrusted ==
    /\ att = Attestation([decode |-> "ok", key |-> K1, sign |-> "SHA256"], NoCert,
                         <<>>, GoodPCClientLog, GoodCanonicalLog)
    /\ \E tk \in SeqsUpTo(TrustKeys, MaxTrusted) : opts = VerifyOpts(1, tk, FALSE, {}, {})
    /\ pc = "checkAkTrusted"
    /\ akPubKey \in TrustKeys
    /\ cands = <<>>
    /\ quote = NoQuote
    /\ state = NilState
    /\ celState = NilState
    /\ lastErr = NoErr
    /\ result = NoResult
    /\ calls = <<>>
    /\ prev = NoPrev
    /\ wpc = "Idle" /\ et = BIOSEvent(0) /\ etRet = NoEventType
    /\ tagData = <<>> /\ intSize = 64 /\ tagRet = NoTagged
    /\ NoClientCall

\* err := checkAkTrusted(akPubKey, opts)
CallCheckAkTrusted ==
    /\ pc = "checkAkTrusted"
    /\ lastErr' = checkAkTrusted(akPubKey, opts)
    /\ pc' = "checkAkTrusted returned"
    /\ UNCHANGED <<inputs, akPubKey, cands, quote, state, celState, result, calls>>

NextAkTrusted == CallCheckAkTrusted

SpecAkTrusted == InitAkTrusted /\ [][NextAkTrusted]_vars

\* the key is an entry of opts.TrustedAKs
ListedInTrustedAKs == \E i \in DOMAIN opts.TrustedAKs : opts.TrustedAKs[i] = akPubKey

\* C30: checkAkTrusted returns nil exactly when opts.TrustedAKs is not empty,
\* the AK is an RSA or an ECDSA key and an entry of the list is that key; an
\* AK of another type is not trusted though the list holds the same key, and
\* an empty list gives the 'no mechanism' error.
C30_TypedEqualityOnly ==
    pc = "checkAkTrusted returned" =>
        /\ lastErr = NoErr <=> /\ Len(opts.TrustedAKs) > 0
                               /\ akPubKey.type \in {"RSA", "ECC"}
                               /\ ListedInTrustedAKs
        /\ akPubKey.type \notin {"RSA", "ECC"} =>
              lastErr.msg \in {"AK public key is not trusted",
                               "no mechanism for AK verification provided"}
        /\ Len(opts.TrustedAKs) = 0 <=>
              lastErr = Err("no mechanism for AK verification provided", "nil")

\* an Ed25519 AK that the list holds was not trusted
C30_Witness ==
    /\ pc = "checkAkTrusted returned"
    /\ akPubKey = K3
    /\ ListedInTrustedAKs
    /\ lastErr = Err("AK public key is not trusted", "nil")

====
